---- MODULE Spec2Model ----
(***************************************************************************)
(* Chunked, replicated file storage: the control plane's upload and        *)
(* download handlers (control_plane/api/routes/file.py), the hash ring     *)
(* and the replication writer (control_plane/services/storage_client.py),  *)
(* the node registry routes (control_plane/api/routes/nodes.py) and the    *)
(* storage daemon (storage_plane/main.py).                                 *)
(***************************************************************************)
EXTENDS Integers, Sequences, FiniteSets, TLC

(* ------------------------------ bounds -------------------------------- *)
\* node ids the registry hands out in one behaviour of the system
MaxNodes == 3
\* longest uploaded stream, in bytes
MaxFileLen == 3
\* upload and download requests served in one behaviour
MaxRequests == 2
\* operator actions (a node deleted, an is_online flag flipped, a version deleted)
MaxAdmin == 1
\* failed or cut-off calls to storage nodes in one behaviour
MaxFaults == 2
\* ring specification: node ids, hash values 0..HashSpace-1, largest replica count
RingNodes == 3
HashSpace == 2
MaxK == 3

(* --------------------------- configuration ---------------------------- *)
\* settings.CHUNK_SIZE_BYTES and settings.REPLICATION_FACTOR are read from the
\* environment; the model runs with small values of both
CHUNK_SIZE_BYTES == 2
REPLICATION_FACTOR == 2

\* the uploaded streams: the byte at offset i is i, so that a lost, repeated or
\* misplaced byte shows; the handlers never look at a byte's value
Streams == {[i \in 1..n |-> i] : n \in 0..MaxFileLen}
NodeIds == 1..MaxNodes
Procs == {1}
Readers == {1}
FileNames == {"a"}
Users == {1}
\* the authenticated callers of the read routes: the uploader and another user
Callers == {1, 2}
Roles == {"owner", "read", "write"}

VARIABLES
    nodes,       \* nodes table: node id -> is_online
    node_hash,   \* _hash_key("node-<id>") of every node id
    blobs,       \* the storage daemons' disks: set of [node, key, data]
    files,       \* files table
    versions,    \* file_versions table (committed rows)
    chunks,      \* chunks table (committed rows)
    locations,   \* chunk_locations table (committed rows)
    seq,         \* the tables' id sequences and the uuid4 source
    up,          \* upload_file requests, one per worker
    dn,          \* download_file requests, one per worker
    hist,        \* history: what was uploaded, assigned and requested
    sel          \* the last call of select_nodes_for_chunk_consistent

vars == <<nodes, node_hash, blobs, files, versions, chunks, locations, seq,
          up, dn, hist, sel>>

(* ------------------------------ helpers ------------------------------- *)
Max(S) == CHOOSE x \in S : \A y \in S : y <= x
Min(S) == CHOOSE x \in S : \A y \in S : x <= y
MinOf(a, b) == IF a <= b THEN a ELSE b
Range(s) == {s[i] : i \in 1..Len(s)}
Distinct(s) == \A i, j \in 1..Len(s) : i # j => s[i] # s[j]

RECURSIVE SortedSeq(_)
\* the elements of a set of integers in ascending order (ORDER BY ... ASC)
SortedSeq(S) ==
    IF S = {} THEN <<>>
    ELSE LET m == Min(S) IN <<m>> \o SortedSeq(S \ {m})

RECURSIVE Flatten(_)
\* the concatenation of a sequence of byte strings
Flatten(ss) ==
    IF ss = <<>> THEN <<>> ELSE Head(ss) \o Flatten(Tail(ss))

(* ------------------------------ hash ring ----------------------------- *)
\* the first byte of sha256("node-<id>"): 35, 17, a8, 9b, aa, 6b, c3
NodeKeyDigest == <<53, 23, 168, 155, 170, 107, 195>>
\* chunk ids are uuid4 strings: their digest may fall anywhere on the ring
KeyDigests == {0, 53, 100, 160, 255}

\* a query without the is_online filter
get_all_nodes(tbl) ==
    SortedSeq(DOMAIN tbl)

\* db.query(Node).filter(is_online).order_by(Node.id.asc()); the caller raises 503
\* for the empty list
get_online_nodes(tbl) ==
    SortedSeq({n \in DOMAIN tbl : tbl[n]})

\* list.sort(key=hash) is stable: a node goes behind every node whose hash is <= its own
RingInsert(ring, h, n) ==
    LET before == {i \in 1..Len(ring) : ring[i][1] <= h}
        k == IF before = {} THEN 0 ELSE Max(before)
    IN  SubSeq(ring, 1, k) \o <<(<<h, n>>)>> \o SubSeq(ring, k + 1, Len(ring))

RECURSIVE build_hash_ring_from(_, _)
build_hash_ring_from(nodeSeq, ring) ==
    IF nodeSeq = <<>> THEN ring
    ELSE build_hash_ring_from(Tail(nodeSeq),
                              RingInsert(ring, node_hash[Head(nodeSeq)], Head(nodeSeq)))

build_hash_ring(nodeSeq) == build_hash_ring_from(nodeSeq, <<>>)

\* the first ring position whose hash is >= key_hash, position 1 when there is none
start_index(ring, key_hash) ==
    LET ge == {i \in 1..Len(ring) : ring[i][1] >= key_hash}
    IN  IF ge = {} THEN 1 ELSE Min(ge)

RECURSIVE walk_ring(_, _, _, _)
walk_ring(ring, i, selected, k) ==
    IF Len(selected) < k /\ Len(selected) < Len(ring)
    THEN LET node == ring[i][2]
         IN  walk_ring(ring, (i % Len(ring)) + 1,
                       IF node \in Range(selected) THEN selected
                       ELSE Append(selected, node), k)
    ELSE selected

\* a walk that stops at the end of the ring instead of wrapping around
select_no_wrap(key_hash, nodeSeq, k) ==
    IF Len(nodeSeq) <= k THEN nodeSeq
    ELSE LET ring == build_hash_ring(nodeSeq)
             s == start_index(ring, key_hash)
         IN  [j \in 1..k |-> ring[MinOf(s + j - 1, Len(ring))][2]]

\* a selection that remembers where the previous call ended (a cached cursor)
select_with_cursor(key_hash, nodeSeq, k) ==
    IF Len(nodeSeq) <= k
    THEN IF sel.status = 200 /\ sel.k >= Len(nodeSeq) /\ Len(nodeSeq) > 1
         THEN Tail(nodeSeq) \o <<Head(nodeSeq)>> ELSE nodeSeq
    ELSE LET ring == build_hash_ring(nodeSeq)
             s == IF sel.status = 200 THEN (start_index(ring, key_hash) % Len(ring)) + 1
                  ELSE start_index(ring, key_hash)
         IN  walk_ring(ring, s, <<>>, k)

\* a placement that keeps one replica: the key's successor only
select_single_replica(key_hash, nodeSeq, k) ==
    LET ring == build_hash_ring(nodeSeq)
    IN  <<ring[start_index(ring, key_hash)][2]>>

\* a walk that starts at the first position whose hash is greater than the key's
select_strictly_after(key_hash, nodeSeq, k) ==
    IF Len(nodeSeq) <= k THEN nodeSeq
    ELSE LET ring == build_hash_ring(nodeSeq)
             gt == {i \in 1..Len(ring) : ring[i][1] > key_hash}
         IN  walk_ring(ring, IF gt = {} THEN 1 ELSE Min(gt), <<>>, k)

\* a placement by key modulo node count instead of the key's successor on the ring
select_by_modulo(key_hash, nodeSeq, k) ==
    IF Len(nodeSeq) <= k THEN nodeSeq
    ELSE LET ring == build_hash_ring(nodeSeq)
         IN  walk_ring(ring, (key_hash % Len(ring)) + 1, <<>>, k)

\* select_nodes_for_chunk_consistent with nodes = get_online_nodes(db), non-empty
select_nodes_for_chunk_consistent(key_hash, nodeSeq, k) ==
    IF Len(nodeSeq) <= k THEN nodeSeq
    ELSE LET ring == build_hash_ring(nodeSeq)
         IN  walk_ring(ring, start_index(ring, key_hash), <<>>, k)

(* --------------------------- storage daemon ---------------------------- *)
\* PUT /chunks/{chunk_id}: open(dest, "wb") replaces whatever the key held
put_chunk(disk, node, key, data) ==
    {b \in disk : ~(b.node = node /\ b.key = key)}
        \cup {[node |-> node, key |-> key, data |-> data]}

has_chunk(disk, node, key) == \E b \in disk : b.node = node /\ b.key = key

\* GET /chunks/{chunk_id}: the stored bytes (the caller checks has_chunk: 404 otherwise)
get_chunk(disk, node, key) ==
    (CHOOSE b \in disk : b.node = node /\ b.key = key).data

(* ------------------------------ requests ------------------------------- *)
IdleUp ==
    [pc |-> "idle", name |-> "", user |-> 0, src |-> <<>>, off |-> 0, file_id |-> 0,
     next_version |-> 0, version_id |-> 0, index |-> 0, total_size |-> 0,
     chunk_id |-> 0, data |-> <<>>, targets |-> <<>>, pos |-> 0,
     pchunks |-> {}, plocs |-> {}, puts |-> <<>>, status |-> 0, detail |-> 0]

IdleDn ==
    [pc |-> "idle", user |-> 0, version |-> 0, version_id |-> 0, chunk_list |-> <<>>, ci |-> 0,
     locs |-> <<>>,
     li |-> 0, outs |-> <<>>, cur |-> <<>>, gets |-> <<>>, cut |-> {},
     status |-> 0, detail |-> 0]

InitHist ==
    [issued |-> <<>>, streams |-> {}, failed |-> {}, requests |-> 0,
     admin |-> 0, faults |-> 0]

NoSel ==
    [status |-> 0, key |-> 0, k |-> 0, online |-> <<>>, result |-> <<>>, again |-> FALSE,
     prev |-> <<>>]

Init ==
    /\ nodes = <<>>
    /\ node_hash = [n \in NodeIds |-> NodeKeyDigest[n]]
    /\ blobs = {} /\ files = {} /\ versions = {} /\ chunks = {} /\ locations = {}
    /\ seq = [node |-> 1, file |-> 1, version |-> 1, chunk |-> 1]
    /\ up = [p \in Procs |-> IdleUp]
    /\ dn = [r \in Readers |-> IdleDn]
    /\ hist = InitHist
    /\ sel = NoSel

\* a worker takes the next request once it has answered the previous one
WorkerFree(w) == w.pc \in {"idle", "done", "failed"}

(* ---------------------------- node registry ---------------------------- *)
\* POST /nodes/create
register_node(is_online) ==
    /\ seq.node <= MaxNodes
    /\ nodes' = [n \in DOMAIN nodes \cup {seq.node} |->
                    IF n = seq.node THEN is_online ELSE nodes[n]]
    /\ seq' = [seq EXCEPT !.node = @ + 1]
    /\ UNCHANGED <<node_hash, blobs, files, versions, chunks, locations, up, dn, hist, sel>>

\* a deletion of the node row that leaves its chunk_locations behind
delete_node_only(node_id) ==
    /\ node_id \in DOMAIN nodes
    /\ hist.admin < MaxAdmin
    /\ nodes' = [n \in DOMAIN nodes \ {node_id} |-> nodes[n]]
    /\ hist' = [hist EXCEPT !.admin = @ + 1]
    /\ UNCHANGED <<node_hash, blobs, files, versions, chunks, locations, seq, up, dn, sel>>

\* DELETE /nodes/delete/{node_id}: the node row and, by cascade, its chunk_locations
delete_node(node_id) ==
    /\ node_id \in DOMAIN nodes
    /\ hist.admin < MaxAdmin
    /\ nodes' = [n \in DOMAIN nodes \ {node_id} |-> nodes[n]]
    /\ locations' = {l \in locations : l.node_id # node_id}
    /\ hist' = [hist EXCEPT !.admin = @ + 1]
    /\ UNCHANGED <<node_hash, blobs, files, versions, chunks, seq, up, dn, sel>>

\* the operator's update of Node.is_online (no route of the control plane writes it)
set_online(node_id, flag) ==
    /\ node_id \in DOMAIN nodes
    /\ nodes[node_id] # flag
    /\ hist.admin < MaxAdmin
    /\ nodes' = [nodes EXCEPT ![node_id] = flag]
    /\ hist' = [hist EXCEPT !.admin = @ + 1]
    /\ UNCHANGED <<node_hash, blobs, files, versions, chunks, locations, seq, up, dn, sel>>

\* a FilePermission row inserted for a user who has none on the file (no route of
\* the control plane does it; the table allows one row per file and user)
grant_permission(file_id, user, role) ==
    /\ hist.admin < MaxAdmin
    /\ \E f \in files :
          /\ f.id = file_id
          /\ \A q \in f.perms : q[1] # user
          /\ files' = (files \ {f}) \cup {[f EXCEPT !.perms = @ \cup {<<user, role>>}]}
    /\ hist' = [hist EXCEPT !.admin = @ + 1]
    /\ UNCHANGED <<nodes, node_hash, blobs, versions, chunks, locations, seq, up, dn, sel>>

\* a FileVersion row deleted: its chunks and their locations go with it (cascade);
\* not while an upload is still writing that version
delete_version(version_id) ==
    /\ \E v \in versions : v.id = version_id
    /\ \A p \in Procs : WorkerFree(up[p]) \/ up[p].version_id # version_id
    /\ versions' = {v \in versions : v.id # version_id}
    /\ chunks' = {c \in chunks : c.file_version_id # version_id}
    /\ locations' = {l \in locations :
                        \A c \in chunks : c.id = l.chunk_id => c.file_version_id # version_id}
    /\ hist.admin < MaxAdmin
    /\ hist' = [hist EXCEPT !.admin = @ + 1]
    /\ UNCHANGED <<nodes, node_hash, blobs, files, seq, up, dn, sel>>

(* ------------------------------- upload -------------------------------- *)
\* the request's session ends without a commit: what it added or flushed is discarded
SessionClose(u, status, detail) ==
    [u EXCEPT !.pc = "failed", !.pchunks = {}, !.plocs = {},
              !.status = status, !.detail = detail]

\* a flush or commit inserts the pending chunk_locations: node_id is a foreign key
ForeignKeysHold(u) == \A l \in u.plocs : l.node_id \in DOMAIN nodes

\* file.file.read(chunk_size): the next window of the stream, shorter at its end
read_window(src, off) ==
    SubSeq(src, off + 1, MinOf(off + CHUNK_SIZE_BYTES, Len(src)))

\* a loop that counts the index in bytes instead of chunks
next_index_bytes(index, data) == index + Len(data)

\* index += 1
next_index(index, data) == index + 1

\* POST /files/upload arrives; step 1 looks the File up by (name, owner)
upload_file(p, name, user, src) ==
    /\ WorkerFree(up[p])
    /\ hist.requests < MaxRequests
    /\ hist' = [hist EXCEPT !.requests = @ + 1]
    /\ LET found == {f \in files : f.name = name /\ f.owner_id = user} IN
       up' = [up EXCEPT ![p] =
                [IdleUp EXCEPT !.pc = IF found = {} THEN "create_file" ELSE "next_version",
                               !.name = name, !.user = user, !.src = src,
                               !.file_id = IF found = {} THEN 0
                                           ELSE Min({f.id : f \in found})]]
    /\ UNCHANGED <<nodes, node_hash, blobs, files, versions, chunks, locations, seq,
                   dn, sel>>

\* step 1, no such File: insert it (and the owner's FilePermission) and commit
upload_create_file(p) ==
    /\ up[p].pc = "create_file"
    /\ files' = files \cup {[id |-> seq.file, name |-> up[p].name, owner_id |-> up[p].user,
                             perms |-> {<<up[p].user, "owner">>}]}
    /\ seq' = [seq EXCEPT !.file = @ + 1]
    /\ up' = [up EXCEPT ![p].pc = "next_version", ![p].file_id = seq.file]
    /\ UNCHANGED <<nodes, node_hash, blobs, versions, chunks, locations, dn, hist, sel>>

\* step 2: the latest version number of the file, plus one
upload_next_version(p) ==
    /\ up[p].pc = "next_version"
    /\ LET mine == {v \in versions : v.file_id = up[p].file_id} IN
       up' = [up EXCEPT ![p].pc = "create_version",
                        ![p].next_version =
                            IF mine = {} THEN 1
                            ELSE Max({v.version_number : v \in mine}) + 1]
    /\ UNCHANGED <<nodes, node_hash, blobs, files, versions, chunks, locations, seq,
                   dn, hist, sel>>

\* a writer that puts the new content into the file's latest version when there
\* is one, instead of inserting a version
upload_into_latest_version(p) ==
    LET mine == {v \in versions : v.file_id = up[p].file_id}
        latest == CHOOSE v \in mine : \A w \in mine : v.version_number >= w.version_number
    IN
    /\ up[p].pc = "create_version"
    /\ IF mine = {}
       THEN /\ versions' = versions \cup
                   {[id |-> seq.version, file_id |-> up[p].file_id,
                     version_number |-> up[p].next_version, size_bytes |-> 0]}
            /\ seq' = [seq EXCEPT !.version = @ + 1]
            /\ up' = [up EXCEPT ![p].pc = "read", ![p].version_id = seq.version]
       ELSE /\ UNCHANGED <<versions, seq>>
            /\ up' = [up EXCEPT ![p].pc = "read", ![p].version_id = latest.id,
                                ![p].index = Cardinality({c \in chunks :
                                                 c.file_version_id = latest.id})]
    /\ hist' = [hist EXCEPT !.issued = Append(@, <<up[p].file_id, up[p].next_version>>)]
    /\ UNCHANGED <<nodes, node_hash, blobs, files, chunks, locations, dn, sel>>

\* a version that is created with the size of the stream it is going to hold
upload_create_version_sized(p) ==
    /\ up[p].pc = "create_version"
    /\ versions' = versions \cup
           {[id |-> seq.version, file_id |-> up[p].file_id,
             version_number |-> up[p].next_version, size_bytes |-> Len(up[p].src)]}
    /\ seq' = [seq EXCEPT !.version = @ + 1]
    /\ up' = [up EXCEPT ![p].pc = "read", ![p].version_id = seq.version]
    /\ hist' = [hist EXCEPT !.issued = Append(@, <<up[p].file_id, up[p].next_version>>)]
    /\ UNCHANGED <<nodes, node_hash, blobs, files, chunks, locations, dn, sel>>

\* step 3: insert the FileVersion with size_bytes = 0 and commit
upload_create_version(p) ==
    /\ up[p].pc = "create_version"
    /\ versions' = versions \cup
           {[id |-> seq.version, file_id |-> up[p].file_id,
             version_number |-> up[p].next_version, size_bytes |-> 0]}
    /\ seq' = [seq EXCEPT !.version = @ + 1]
    /\ up' = [up EXCEPT ![p].pc = "read", ![p].version_id = seq.version]
    /\ hist' = [hist EXCEPT !.issued = Append(@, <<up[p].file_id, up[p].next_version>>)]
    /\ UNCHANGED <<nodes, node_hash, blobs, files, chunks, locations, dn, sel>>

\* step 4, one turn of the loop up to replicate_chunk's flush: read a window, draw a
\* chunk id, select the target nodes, add the Chunk row to the session
upload_read_chunk(p, key_hash) ==
    LET u == up[p]
        data == read_window(u.src, u.off)
        online == get_online_nodes(nodes)
        row == [id |-> seq.chunk, file_version_id |-> u.version_id,
                index |-> u.index, size_bytes |-> Len(data)]
    IN
    /\ u.pc = "read"
    /\ IF data = <<>>
       THEN /\ up' = [up EXCEPT ![p].pc = "finish"]
            /\ UNCHANGED <<seq, hist>>
       ELSE /\ seq' = [seq EXCEPT !.chunk = @ + 1]
            /\ UNCHANGED hist
            /\ up' = [up EXCEPT ![p] =
                 IF online = <<>>
                 THEN SessionClose([u EXCEPT !.chunk_id = seq.chunk, !.data = data], 503, 0)
                 ELSE IF ~ForeignKeysHold(u)
                 THEN SessionClose([u EXCEPT !.chunk_id = seq.chunk, !.data = data], 500, 0)
                 ELSE [u EXCEPT !.pc = "put", !.chunk_id = seq.chunk, !.data = data,
                                !.targets = select_nodes_for_chunk_consistent(
                                                key_hash, online, REPLICATION_FACTOR),
                                !.pos = 1,
                                !.pchunks = @ \cup {row}]]
    /\ UNCHANGED <<nodes, node_hash, blobs, files, versions, chunks, locations, dn, sel>>

PutOutcomes == {"created", "refused", "status", "timeout"}

\* a writer that swallows the failed PUT and goes on with the next target node
put_failed_tolerated(u, node) ==
    IF u.pos = Len(u.targets)
    THEN [u EXCEPT !.pc = "read", !.pos = 0, !.total_size = @ + Len(u.data),
                   !.off = @ + Len(u.data), !.index = @ + 1]
    ELSE [u EXCEPT !.pos = @ + 1]

\* a writer that tries the same node again after a failed PUT
put_failed_retry(u, node) == u

\* a writer that deletes the chunk from the nodes that stored it when a PUT fails
store_with_cleanup(disk, u, node, outcome) ==
    IF outcome = "created" THEN put_chunk(disk, node, u.chunk_id, u.data)
    ELSE {b \in disk : b.key # u.chunk_id}

\* what httpx.put leaves on the nodes' disks: the daemon has written the bytes when
\* it answers 201, and also when its answer is lost (timeout); nothing else changes
store_after_put(disk, u, node, outcome) ==
    IF outcome \in {"created", "timeout"}
    THEN put_chunk(disk, node, u.chunk_id, u.data) ELSE disk

\* httpx.RequestError or a status other than 200/201: HTTPException(502) naming the
\* node leaves replicate_chunk and upload_file; nothing is committed
put_failed(u, node) == SessionClose(u, 502, node)

\* replicate_chunk's loop, one node: PUT the bytes, then add the ChunkLocation;
\* a RequestError or a status other than 200/201 raises 502 naming the node
upload_put(p, outcome) ==
    LET v == up[p]
        node == v.targets[v.pos]
        \* the PUTs this request has issued: chunk, node, acknowledged or not
        u == [v EXCEPT !.puts = Append(@, <<v.chunk_id, node, outcome = "created">>)]
        last == u.pos = Len(u.targets)
        loc == [ord |-> u.pos, chunk_id |-> u.chunk_id, node_id |-> node]
    IN
    /\ v.pc = "put"
    /\ outcome # "created" => hist.faults < MaxFaults
    /\ blobs' = store_after_put(blobs, u, node, outcome)
    /\ IF outcome = "created"
       THEN /\ up' = [up EXCEPT ![p] =
                 IF last
                 THEN [u EXCEPT !.pc = "read", !.plocs = @ \cup {loc}, !.pos = 0,
                                !.total_size = @ + Len(u.data),
                                !.off = @ + Len(u.data),
                                !.index = next_index(u.index, u.data)]
                 ELSE [u EXCEPT !.plocs = @ \cup {loc}, !.pos = @ + 1]]
            /\ UNCHANGED hist
       ELSE /\ up' = [up EXCEPT ![p] = put_failed(u, node)]
            /\ hist' = [hist EXCEPT !.failed = @ \cup {u.chunk_id}, !.faults = @ + 1]
    /\ UNCHANGED <<nodes, node_hash, files, versions, chunks, locations, seq, dn, sel>>

\* a commit that makes the Chunk rows visible and leaves their ChunkLocation rows
\* to a transaction of their own
upload_commit_rows_apart(p) ==
    LET u == up[p] IN
    /\ u.pc = "finish"
    /\ versions' = {IF v.id = u.version_id
                     THEN [v EXCEPT !.size_bytes = u.total_size] ELSE v : v \in versions}
    /\ chunks' = chunks \cup u.pchunks
    /\ IF u.pchunks = {}
       THEN /\ locations' = locations \cup u.plocs
            /\ up' = [up EXCEPT ![p].pc = "done", ![p].status = 200, ![p].plocs = {}]
            /\ hist' = [hist EXCEPT !.streams = @ \cup {[id |-> u.version_id,
                                                         data |-> u.src]}]
       ELSE /\ up' = [up EXCEPT ![p].pchunks = {}]
            /\ UNCHANGED <<locations, hist>>
    /\ UNCHANGED <<nodes, node_hash, blobs, files, seq, dn, sel>>

\* after the loop: version.size_bytes = total_size; db.commit() makes the session's
\* Chunk and ChunkLocation rows visible
upload_commit(p) ==
    LET u == up[p] IN
    /\ u.pc = "finish"
    /\ IF ForeignKeysHold(u)
       THEN /\ versions' = {IF v.id = u.version_id
                            THEN [v EXCEPT !.size_bytes = u.total_size] ELSE v
                            : v \in versions}
            /\ chunks' = chunks \cup u.pchunks
            /\ locations' = locations \cup u.plocs
            /\ up' = [up EXCEPT ![p].pc = "done", ![p].status = 200,
                                ![p].pchunks = {}, ![p].plocs = {}]
            /\ hist' = [hist EXCEPT !.streams = @ \cup {[id |-> u.version_id,
                                                         data |-> u.src]}]
       ELSE /\ up' = [up EXCEPT ![p] = SessionClose(u, 500, 0)]
            /\ UNCHANGED <<versions, chunks, locations, hist>>
    /\ UNCHANGED <<nodes, node_hash, blobs, files, seq, dn, sel>>

Upload(p) ==
    \/ \E name \in FileNames, user \in Users, src \in Streams :
          upload_file(p, name, user, src)
    \/ upload_create_file(p)
    \/ upload_next_version(p)
    \/ upload_create_version(p)
    \/ \E key_hash \in KeyDigests : upload_read_chunk(p, key_hash)
    \/ \E outcome \in PutOutcomes : upload_put(p, outcome)
    \/ upload_commit(p)

(* ------------------------------ download ------------------------------- *)
RECURSIVE OrderByIndex(_)
\* Chunk rows, ORDER BY Chunk.index ASC
OrderByIndex(rows) ==
    IF rows = {} THEN <<>>
    ELSE LET r == CHOOSE x \in rows : \A y \in rows : x.index <= y.index
         IN  <<r>> \o OrderByIndex(rows \ {r})

RECURSIVE OrderByOrd(_)
\* ChunkLocation rows in the order they were inserted (the query has no ORDER BY)
OrderByOrd(rows) ==
    IF rows = {} THEN <<>>
    ELSE LET r == CHOOSE x \in rows : \A y \in rows : x.ord <= y.ord
         IN  <<r>> \o OrderByOrd(rows \ {r})

RECURSIVE OrderByIdDesc(_)
OrderByIdDesc(rows) ==
    IF rows = {} THEN <<>>
    ELSE LET r == CHOOSE x \in rows : \A y \in rows : x.id >= y.id
         IN  <<r>> \o OrderByIdDesc(rows \ {r})

\* a query that returns the version's chunks newest row first
chunks_newest_first(version_id) ==
    OrderByIdDesc({c \in chunks : c.file_version_id = version_id})

\* step 3: the version's chunks, ORDER BY Chunk.index ASC
chunks_of_version(version_id) ==
    OrderByIndex({c \in chunks : c.file_version_id = version_id})

\* the chunk's locations whatever the is_online flag of their nodes
all_locations(chunk_id) ==
    OrderByOrd({l \in locations : l.chunk_id = chunk_id /\ l.node_id \in DOMAIN nodes})

\* the chunk's locations joined with nodes, is_online only, in insertion order
online_locations(chunk_id) ==
    OrderByOrd({l \in locations : /\ l.chunk_id = chunk_id
                                  /\ l.node_id \in DOMAIN nodes
                                  /\ nodes[l.node_id]})

RECURSIVE OrderByVersionDesc(_)
\* FileVersion rows, ORDER BY version_number DESC (rows of equal number by id)
OrderByVersionDesc(rows) ==
    IF rows = {} THEN <<>>
    ELSE LET r == CHOOSE x \in rows : \A y \in rows :
                      \/ x.version_number > y.version_number
                      \/ x.version_number = y.version_number /\ x.id <= y.id
         IN  <<r>> \o OrderByVersionDesc(rows \ {r})

\* a listing for every user who has a FilePermission row on the file
list_versions_permitted(file_id, user) ==
    OrderByVersionDesc({v \in versions :
                          /\ v.file_id = file_id
                          /\ \E f \in files : /\ f.id = file_id
                                               /\ \E q \in f.perms : q[1] = user})

\* GET /files/{file_id}/versions: the caller's file's versions, newest first
list_versions(file_id, user) ==
    OrderByVersionDesc({v \in versions :
                          /\ v.file_id = file_id
                          /\ \E f \in files : f.id = file_id /\ f.owner_id = user})

\* a handler that answers a version without chunks as an empty file
download_file_empty_ok(r, file_id, user, version) ==
    LET mine == {f \in files : f.id = file_id /\ f.owner_id = user}
        found == {v \in versions : v.file_id = file_id /\ v.version_number = version}
        file_version == CHOOSE v \in found : \A w \in found : v.id <= w.id
        list == chunks_of_version(file_version.id)
        asked == [IdleDn EXCEPT !.user = user, !.version = version]
    IN
    /\ WorkerFree(dn[r])
    /\ hist.requests < MaxRequests
    /\ hist' = [hist EXCEPT !.requests = @ + 1]
    /\ dn' = [dn EXCEPT ![r] =
         IF mine = {}
         THEN [asked EXCEPT !.pc = "failed", !.status = 404]
         ELSE IF version = 0
         THEN [asked EXCEPT !.pc = "failed", !.status = 500]
         ELSE IF found = {}
         THEN [asked EXCEPT !.pc = "failed", !.status = 404]
         ELSE IF list = <<>>
         THEN [asked EXCEPT !.pc = "done", !.status = 200,
                            !.version_id = file_version.id]
         ELSE [asked EXCEPT !.pc = "resolve", !.version_id = file_version.id,
                            !.chunk_list = list, !.ci = 1]]
    /\ UNCHANGED <<nodes, node_hash, blobs, files, versions, chunks, locations, seq,
                   up, sel>>

\* GET /files/{file_id}/download?version=n up to the StreamingResponse: 404 for a
\* file that is not the caller's or a version that does not exist, 500 for a
\* version without chunks. version = 0 stands for no version parameter: the handler
\* then reads db_file.versions, an attribute the File model does not have, and the
\* request ends with an unhandled error
download_file(r, file_id, user, version) ==
    LET mine == {f \in files : f.id = file_id /\ f.owner_id = user}
        found == {v \in versions : v.file_id = file_id /\ v.version_number = version}
        file_version == CHOOSE v \in found : \A w \in found : v.id <= w.id
        list == chunks_of_version(file_version.id)
        asked == [IdleDn EXCEPT !.user = user, !.version = version]
    IN
    /\ WorkerFree(dn[r])
    /\ hist.requests < MaxRequests
    /\ hist' = [hist EXCEPT !.requests = @ + 1]
    /\ dn' = [dn EXCEPT ![r] =
         IF mine = {}
         THEN [asked EXCEPT !.pc = "failed", !.status = 404]
         ELSE IF version = 0
         THEN [asked EXCEPT !.pc = "failed", !.status = 500]
         ELSE IF found = {}
         THEN [asked EXCEPT !.pc = "failed", !.status = 404]
         ELSE IF list = <<>>
         THEN [asked EXCEPT !.pc = "failed", !.status = 500,
                            !.version_id = file_version.id]
         ELSE [asked EXCEPT !.pc = "resolve", !.version_id = file_version.id,
                            !.chunk_list = list, !.ci = 1]]
    /\ UNCHANGED <<nodes, node_hash, blobs, files, versions, chunks, locations, seq,
                   up, sel>>

\* a reader that goes on to the next chunk when a chunk has no online replica
resolve_or_skip(d, locs) ==
    IF locs = <<>>
    THEN IF d.ci = Len(d.chunk_list)
         THEN [d EXCEPT !.pc = "done", !.status = 200, !.outs = Append(@, <<>>)]
         ELSE [d EXCEPT !.ci = @ + 1, !.outs = Append(@, <<>>)]
    ELSE [d EXCEPT !.pc = "get", !.locs = locs, !.li = 1]

\* the head of stream_file_bytes' loop body: no online replica raises 503 naming
\* the chunk's index
resolve_locations(d, locs) ==
    IF locs = <<>>
    THEN [d EXCEPT !.pc = "failed", !.status = 503,
                   !.detail = d.chunk_list[d.ci].index]
    ELSE [d EXCEPT !.pc = "get", !.locs = locs, !.li = 1]

download_resolve(r) ==
    LET d == dn[r] IN
    /\ d.pc = "resolve"
    /\ dn' = [dn EXCEPT ![r] = resolve_locations(d, online_locations(d.chunk_list[d.ci].id))]
    /\ UNCHANGED <<nodes, node_hash, blobs, files, versions, chunks, locations, seq,
                   up, hist, sel>>

\* a reader that asks the location that has just failed once more
same_replica_again(d) == d

\* the attempt failed, on to the next replica: 502 naming the chunk's index when
\* there is none left
next_replica(d) ==
    IF d.li = Len(d.locs)
    THEN [d EXCEPT !.pc = "failed", !.status = 502, !.detail = d.chunk_list[d.ci].index]
    ELSE [d EXCEPT !.li = @ + 1]

\* the chunk is served, on to the next chunk
next_chunk(d) ==
    IF d.ci = Len(d.chunk_list)
    THEN [d EXCEPT !.pc = "done", !.status = 200, !.cur = <<>>, !.locs = <<>>, !.li = 0]
    ELSE [d EXCEPT !.pc = "resolve", !.ci = @ + 1, !.cur = <<>>, !.locs = <<>>, !.li = 0]

\* every piece of response.iter_bytes() is yielded as it arrives; a RequestError
\* moves on to the next location, the end of the body ends the chunk
relay(d, received, complete) ==
    IF complete
    THEN next_chunk([d EXCEPT !.outs = Append(@, d.cur \o received)])
    ELSE next_replica([d EXCEPT !.cur = @ \o received,
                                !.cut = IF received = <<>> THEN @ ELSE @ \cup {d.ci}])

\* one GET of the current chunk from the current location. received = -1: the
\* whole body; otherwise the number of bytes that arrived before the transport
\* failed; status: an answer other than 200 (404 when the node has no such blob).
\* location.node is loaded here: for a node deleted since the locations were
\* resolved it is None, and node.base_url ends the request with an unhandled error
download_get(r, outcome, received) ==
    LET d == dn[r]
        chunk == d.chunk_list[d.ci]
        node == d.locs[d.li].node_id
        stored == has_chunk(blobs, node, chunk.id)
        body == IF stored THEN get_chunk(blobs, node, chunk.id) ELSE <<>>
        got == [d EXCEPT !.gets = Append(@, <<d.ci, node>>)]
    IN
    /\ d.pc = "get"
    /\ IF node \notin DOMAIN nodes
       THEN /\ outcome = "status" /\ received = -1
            /\ dn' = [dn EXCEPT ![r] = [d EXCEPT !.pc = "failed", !.status = 500]]
            /\ UNCHANGED hist
       ELSE /\ outcome # "ok" => hist.faults < MaxFaults
            /\ hist' = [hist EXCEPT !.faults = IF outcome = "ok" THEN @ ELSE @ + 1]
            /\ CASE outcome = "ok" ->
                      /\ stored /\ received = -1
                      /\ dn' = [dn EXCEPT ![r] = relay(got, body, TRUE)]
                 [] outcome = "status" ->
                      /\ received = -1
                      /\ dn' = [dn EXCEPT ![r] = next_replica(got)]
                 [] outcome = "error" ->
                      /\ received >= 0 /\ (received < Len(body) \/ received = 0)
                      /\ dn' = [dn EXCEPT ![r] =
                                   relay(got, SubSeq(body, 1, received), FALSE)]
    /\ UNCHANGED <<nodes, node_hash, blobs, files, versions, chunks, locations, seq,
                   up, sel>>

Download(r) ==
    \/ \E file_id \in 1..1, user \in Callers, version \in 0..MaxRequests :
          download_file(r, file_id, user, version)
    \/ download_resolve(r)
    \/ \E outcome \in {"ok", "status", "error"}, received \in -1..(CHUNK_SIZE_BYTES - 1) :
          download_get(r, outcome, received)

Registry ==
    \/ \E flag \in BOOLEAN : register_node(flag)
    \/ \E n \in NodeIds : delete_node(n)
    \/ \E n \in NodeIds, flag \in BOOLEAN : set_online(n, flag)
    \/ \E v \in 1..MaxRequests : delete_version(v)
    \/ \E user \in Callers, role \in Roles : grant_permission(1, user, role)

Next ==
    \/ Registry
    \/ \E p \in Procs : Upload(p)
    \/ \E r \in Readers : Download(r)

Spec == Init /\ [][Next]_vars

(* -------------------- the hash ring on its own ------------------------- *)
InitRing ==
    /\ nodes \in UNION {[D -> BOOLEAN] : D \in SUBSET (1..RingNodes)}
    /\ node_hash \in [1..RingNodes -> 0..(HashSpace - 1)]
    /\ blobs = {} /\ files = {} /\ versions = {} /\ chunks = {} /\ locations = {}
    /\ seq = [node |-> RingNodes + 1, file |-> 1, version |-> 1, chunk |-> 1]
    /\ up = [p \in Procs |-> IdleUp]
    /\ dn = [r \in Readers |-> IdleDn]
    /\ hist = InitHist
    /\ sel = NoSel

\* one call select_nodes_for_chunk_consistent(chunk_id, db, replication_factor)
RingSelect(key_hash, k) ==
    LET online == get_online_nodes(nodes)
        again == sel.status # 0 /\ sel.key = key_hash /\ sel.k = k
        \* the online nodes and the answer of the call before, when it had the same arguments
        prev == IF again /\ sel.status = 200 THEN <<sel.online, sel.result>> ELSE <<>>
    IN
    /\ sel' = IF online = <<>>
              THEN [status |-> 503, key |-> key_hash, k |-> k, online |-> online,
                    result |-> <<>>, again |-> again, prev |-> prev]
              ELSE [status |-> 200, key |-> key_hash, k |-> k, online |-> online,
                    result |-> select_nodes_for_chunk_consistent(key_hash, online, k),
                    again |-> again, prev |-> prev]
    /\ UNCHANGED <<nodes, node_hash, blobs, files, versions, chunks, locations, seq,
                   up, dn, hist>>

NextRing == \E key_hash \in 0..HashSpace, k \in 1..MaxK : RingSelect(key_hash, k)

SpecRing == InitRing /\ [][NextRing]_vars

(* ------------- the hash ring while the node set changes ---------------- *)
\* RingNodes registered nodes, all online, with any hashes
InitStab ==
    /\ nodes = [n \in 1..RingNodes |-> TRUE]
    /\ node_hash \in [1..RingNodes -> 0..(HashSpace - 1)]
    /\ blobs = {} /\ files = {} /\ versions = {} /\ chunks = {} /\ locations = {}
    /\ seq = [node |-> RingNodes + 1, file |-> 1, version |-> 1, chunk |-> 1]
    /\ up = [p \in Procs |-> IdleUp]
    /\ dn = [r \in Readers |-> IdleDn]
    /\ hist = InitHist
    /\ sel = NoSel

\* selections before and after the registry removes a node
NextStab ==
    \/ NextRing
    \/ \E n \in NodeIds : delete_node(n)

SpecStab == InitStab /\ [][NextStab]_vars

(* ------------------- two upload requests at a time --------------------- *)
\* the request workers that serve POST /files/upload side by side
Uploaders == {1, 2}

InitConc ==
    /\ nodes = <<>>
    /\ node_hash = [n \in NodeIds |-> NodeKeyDigest[n]]
    /\ blobs = {} /\ files = {} /\ versions = {} /\ chunks = {} /\ locations = {}
    /\ seq = [node |-> 1, file |-> 1, version |-> 1, chunk |-> 1]
    /\ up = [p \in Uploaders |-> IdleUp]
    /\ dn = [r \in Readers |-> IdleDn]
    /\ hist = InitHist
    /\ sel = NoSel

\* the uploaded streams: empty, or one window long
ConcStreams == {s \in Streams : Len(s) <= 1}

\* the steps of upload_file, as in Upload(p), for streams of at most one window
UploadConc(p) ==
    \/ \E name \in FileNames, user \in Users, src \in ConcStreams :
          upload_file(p, name, user, src)
    \/ upload_create_file(p)
    \/ upload_next_version(p)
    \/ upload_create_version(p)
    \/ \E key_hash \in KeyDigests : upload_read_chunk(p, key_hash)
    \/ \E outcome \in PutOutcomes : upload_put(p, outcome)
    \/ upload_commit(p)

\* each worker runs upload_file on its own session; their statements interleave
NextConc ==
    \/ \E flag \in BOOLEAN : register_node(flag)
    \/ \E p \in Uploaders : UploadConc(p)

SpecConc == InitConc /\ [][NextConc]_vars

(* ============================== properties ============================== *)
\* the stream a version's successful upload was given
StreamOf(version_id) == (CHOOSE s \in hist.streams : s.id = version_id).data

Uploaded(version_id) == \E s \in hist.streams : s.id = version_id

\* the bytes of a chunk: its window of the uploaded stream
ChunkBytes(c) ==
    LET src == StreamOf(c.file_version_id)
        from == c.index * CHUNK_SIZE_BYTES
    IN  SubSeq(src, from + 1, MinOf(from + CHUNK_SIZE_BYTES, Len(src)))

\* what the caller of a download has received so far
Emitted(d) == Flatten(d.outs) \o d.cur

(* C1. Read failover: a chunk whose first location failed mid-stream, after some of
   its bytes were relayed, and that a later location then served in full, reaches
   the caller as exactly the chunk's bytes, once. *)
C1_ReadFailover ==
    \A r \in Readers : \A i \in 1..Len(dn[r].outs) :
        i \in dn[r].cut => dn[r].outs[i] = ChunkBytes(dn[r].chunk_list[i])

(* C2. Write atomicity per chunk: a failed PUT ends the upload with 502 naming the
   node whose PUT failed, and no Chunk row and no ChunkLocation row of that chunk
   is ever in the committed tables a later read queries. *)
C2_WriteAtomicity ==
    /\ \A p \in Procs :
          up[p].chunk_id \in hist.failed =>
              /\ up[p].pc = "failed" /\ up[p].status = 502
              /\ up[p].detail = up[p].targets[up[p].pos]
    /\ \A c \in chunks : c.id \notin hist.failed
    /\ \A l \in locations : l.chunk_id \notin hist.failed

\* the second of two target nodes failed after the first had stored the chunk
C2_Witness ==
    \E p \in Procs :
        /\ up[p].pc = "failed" /\ up[p].status = 502 /\ up[p].pos = 2
        /\ up[p].index = 1
        /\ has_chunk(blobs, up[p].targets[1], up[p].chunk_id)

(* C3. Version numbering: the numbers assigned to one file's versions start at 1
   and every new one is greater than every number assigned to that file before. *)
C3_VersionNumbering ==
    \A j \in 1..Len(hist.issued) :
        LET earlier == {i \in 1..(j - 1) : hist.issued[i][1] = hist.issued[j][1]}
        IN  /\ earlier = {} => hist.issued[j][2] = 1
            /\ \A i \in earlier : hist.issued[i][2] < hist.issued[j][2]

(* C4. Empty upload rejected: an upload of a zero-byte stream ends in an Invalid
   (400) error and its FileVersion has no committed chunk. *)
C4_EmptyUploadRejected ==
    \A p \in Procs :
        (up[p].pc \in {"done", "failed"} /\ up[p].src = <<>> /\ up[p].version_id # 0) =>
            /\ up[p].pc = "failed" /\ up[p].status = 400
            /\ \A c \in chunks : c.file_version_id # up[p].version_id

(* C5. Round trip: a download that ends without an error has delivered exactly the
   stream that was uploaded as that version. *)
C5_RoundTrip ==
    \A r \in Readers :
        dn[r].pc = "done" => Emitted(dn[r]) = StreamOf(dn[r].version_id)

\* the Chunk rows have the indices 0..n-1, each once
Contiguous(rows) ==
    /\ {c.index : c \in rows} = 0..(Cardinality(rows) - 1)
    /\ \A c1, c2 \in rows : c1.index = c2.index => c1 = c2

(* C6. Chunk index contiguity: the Chunk rows of every FileVersion, committed or
   still in the session of its upload, have the indices 0..n-1 without gap or
   duplicate; a successfully uploaded stream of s bytes has ceil(s / chunk size)
   chunks, all of chunk size but the last, which holds the rest. *)
C6_ChunkContiguity ==
    /\ \A v \in versions :
          Contiguous({c \in chunks : c.file_version_id = v.id}
                     \cup UNION {{c \in up[p].pchunks : c.file_version_id = v.id}
                                 : p \in Procs})
    /\ \A v \in versions : Uploaded(v.id) =>
          LET rows == {c \in chunks : c.file_version_id = v.id}
              s == Len(StreamOf(v.id))
              n == (s + CHUNK_SIZE_BYTES - 1) \div CHUNK_SIZE_BYTES
          IN  /\ Cardinality(rows) = n
              /\ \A c \in rows :
                    c.size_bytes = IF c.index < n - 1 THEN CHUNK_SIZE_BYTES
                                   ELSE s - (n - 1) * CHUNK_SIZE_BYTES

\* a committed version of one full chunk (index 0) and a last chunk of one byte
C6_Witness ==
    \E v \in versions :
        /\ Uploaded(v.id) /\ Len(StreamOf(v.id)) = CHUNK_SIZE_BYTES + 1
        /\ \E c \in chunks : c.file_version_id = v.id /\ c.index = 1 /\ c.size_bytes = 1
        /\ \E p \in Procs : up[p].pc = "failed" /\ up[p].status = 502

(* C7. Read exhaustion: a read that ends with 502 names the index of the chunk whose
   locations all failed, has emitted the bytes of every earlier chunk complete and
   unaltered, and has fetched nothing of a later chunk. *)
C7_ReadExhaustion ==
    \A r \in Readers :
        LET d == dn[r] IN
        (d.pc = "failed" /\ d.status = 502) =>
            /\ d.detail = d.chunk_list[d.ci].index
            /\ Len(d.outs) = d.ci - 1
            /\ \A j \in 1..Len(d.outs) : d.outs[j] = ChunkBytes(d.chunk_list[j])
            /\ \A g \in 1..Len(d.gets) : d.gets[g][1] <= d.ci

\* no ChunkLocation of the chunk is on a node that is marked online
NoOnlineReplica(chunk_id) ==
    ~ \E l \in locations :
          l.chunk_id = chunk_id /\ l.node_id \in DOMAIN nodes /\ nodes[l.node_id]

\* the reader has issued a GET for the chunk at position i of its list
Fetched(d, i) == \E g \in 1..Len(d.gets) : d.gets[g][1] = i

C8_Reaching(r) ==
    /\ dn[r].pc = "resolve" /\ dn'[r] # dn[r]
    /\ NoOnlineReplica(dn[r].chunk_list[dn[r].ci].id)

C8_Fails(r) ==
    /\ dn'[r].pc = "failed" /\ dn'[r].status = 503
    /\ dn'[r].detail = dn[r].chunk_list[dn[r].ci].index
    /\ dn'[r].ci = dn[r].ci /\ dn'[r].gets = dn[r].gets /\ dn'[r].outs = dn[r].outs

(* C8. No silent skip: a reader that reaches a chunk without a location on an online
   node fails with 503 naming the chunk's index and issues no GET for it; the reader
   is never past a chunk it has not fetched. *)
C8_NoSilentSkip ==
    /\ [][\A r \in Readers : C8_Reaching(r) => C8_Fails(r)]_vars
    /\ [](\A r \in Readers :
            /\ \A i \in 1..Len(dn[r].outs) : Fetched(dn[r], i)
            /\ dn[r].pc = "done" => Len(dn[r].outs) = Len(dn[r].chunk_list)
            /\ dn[r].status = 503 => ~Fetched(dn[r], dn[r].ci))

\* the first chunk was served, the second one has lost its only online replica
C8_Witness ==
    \E r \in Readers :
        /\ dn[r].pc = "failed" /\ dn[r].status = 503 /\ dn[r].ci = 2
        /\ dn[r].detail = 1 /\ Len(dn[r].outs) = 1

(* C9. No duplicate replicas: a selection over a non-empty online node set of size n
   with replica count k is a list of min(k, n) pairwise distinct online nodes. *)
C9_NoDuplicateReplicas ==
    sel.status = 200 =>
        /\ Distinct(sel.result)
        /\ Range(sel.result) \subseteq {n \in DOMAIN nodes : nodes[n]}
        /\ Len(sel.result) = MinOf(sel.k, Cardinality({n \in DOMAIN nodes : nodes[n]}))

\* a selection of two of three nodes for a key beyond the last ring position: the
\* walk starts at the last position or wraps
C9_Witness ==
    /\ sel.status = 200 /\ sel.k = 2 /\ Len(sel.online) = 3
    /\ \A n \in Range(sel.online) : node_hash[n] < sel.key
    /\ Len(sel.result) = 2

(* C10. Ring determinism: over one online node set a call with the key and replica
   count of the call before it returns the same list in the same order, whatever
   was selected earlier; with k >= the node count the list is all online nodes. *)
C10_RingDeterminism ==
    /\ [][(sel.status = 200 /\ sel'.status = 200 /\ sel'.key = sel.key /\ sel'.k = sel.k)
             => sel'.result = sel.result]_vars
    /\ [][(sel'.status = 200 /\ sel'.k >= Len(sel'.online))
             => Range(sel'.result) = {n \in DOMAIN nodes : nodes[n]}]_vars

\* the same key and replica count twice in a row, selecting two of three nodes
C10_Witness ==
    /\ sel.status = 200 /\ sel.again
    /\ sel.k = 2 /\ Len(sel.online) = 3 /\ Len(sel.result) = 2

\* the call before had the same key and k over one node more, and did not select it
C11_RemovedUnselected ==
    /\ sel.status = 200 /\ sel.prev # <<>>
    /\ \E n \in Range(sel.prev[1]) :
          /\ Range(sel.online) = Range(sel.prev[1]) \ {n}
          /\ n \notin Range(sel.prev[2])

(* C11, as stated. Ring stability: a selection whose nodes did not include the node
   that is then removed from the online set is the same list after the removal. *)
C11_RingStabilityList ==
    C11_RemovedUnselected => sel.result = sel.prev[2]

(* C11, amended. Ring stability: a selection whose nodes did not include the node
   that is then removed from the online set selects the same set of nodes after the
   removal, and the same list when more than k nodes stay online. *)
C11_RingStability ==
    C11_RemovedUnselected =>
        /\ Range(sel.result) = Range(sel.prev[2])
        /\ Len(sel.online) > sel.k => sel.result = sel.prev[2]

\* one of three online nodes is removed and the other two had been selected
C11_Witness ==
    /\ C11_RemovedUnselected
    /\ Len(sel.prev[1]) = 3 /\ sel.k = 2 /\ Len(sel.result) = 2

\* no registered node is marked online
NoNodeOnline == \A n \in DOMAIN nodes : ~nodes[n]

\* the upload is about to place a chunk: it has read a non-empty window
C12_Placing(p) ==
    /\ up[p].pc = "read" /\ up'[p] # up[p]
    /\ read_window(up[p].src, up[p].off) # <<>>

(* C12. Zero online nodes: an upload that comes to place a chunk while no node is
   marked online fails with 503; that step pushes no bytes to any node and records
   no Chunk and no ChunkLocation, and the chunk it was placing is never stored or
   recorded anywhere. *)
C12_ZeroOnlineNodes ==
    /\ [][\A p \in Procs : (C12_Placing(p) /\ NoNodeOnline) =>
              /\ up'[p].pc = "failed" /\ up'[p].status = 503
              /\ blobs' = blobs /\ chunks' = chunks /\ locations' = locations
              /\ up'[p].pchunks \subseteq up[p].pchunks
              /\ up'[p].plocs \subseteq up[p].plocs]_vars
    /\ [](\A p \in Procs : up[p].status = 503 =>
              /\ \A b \in blobs : b.key # up[p].chunk_id
              /\ \A c \in chunks : c.id # up[p].chunk_id
                                      /\ c.file_version_id # up[p].version_id
              /\ \A l \in locations : l.chunk_id # up[p].chunk_id)

\* the only registered node is offline when the upload's first chunk is to be placed
C12_Witness ==
    \E p \in Procs :
        /\ up[p].pc = "failed" /\ up[p].status = 503 /\ up[p].index = 0
        /\ DOMAIN nodes # {} /\ NoNodeOnline /\ blobs = {}

LocationsOf(tbl, chunk_id) == {l \in tbl : l.chunk_id = chunk_id}

\* a node that is registered and online holds the chunk's bytes
HasOnlineReplica(chunk_id) ==
    \E n \in DOMAIN nodes : nodes[n] /\ has_chunk(blobs, n, chunk_id)

\* what a step makes visible: every new chunk with all its locations, no location
\* for a chunk that was visible before
C13_Together ==
    /\ \A c \in chunks' \ chunks :
          /\ LocationsOf(locations', c.id) # {}
          /\ LocationsOf(locations', c.id) =
                 UNION {LocationsOf(up[p].plocs, c.id) : p \in Procs}
    /\ \A l \in locations' \ locations :
          \A c \in chunks : c.id # l.chunk_id

(* C13. Chunk and locations become visible together: a Chunk row enters the
   committed tables, which are all a concurrent reader can query, in the same step
   as all the ChunkLocation rows its upload recorded; no location is added to a chunk
   that is already visible; and no visible chunk of a version has zero locations
   while an online node holds its replica. *)
C13_VisibleTogether ==
    /\ [][C13_Together]_vars
    /\ [](\A c \in chunks :
             (LocationsOf(locations, c.id) = {}) => ~HasOnlineReplica(c.id))

\* a reader asked for the version while its upload was writing (and saw no chunk);
\* the upload has then committed a chunk with two locations
C13_Witness ==
    \E p \in Procs, r \in Readers :
        /\ up[p].pc = "done" /\ dn[r].pc = "failed" /\ dn[r].status = 500
        /\ dn[r].version_id = up[p].version_id
        /\ \E c \in chunks : /\ c.file_version_id = up[p].version_id
                               /\ Cardinality(LocationsOf(locations, c.id)) = 2

\* the upload has created its version and not yet answered
Writing(u) == u.pc \in {"read", "put", "finish"}

(* C14. Read during write: while an upload is in progress, every chunk whose
   replicas have all been acknowledged (index below the upload's current index) is
   in the committed tables a reader queries, with its locations, and no chunk of a
   higher index is. *)
C14_ReadDuringWrite ==
    \A p \in Procs : Writing(up[p]) =>
        {c.index : c \in {x \in chunks : /\ x.file_version_id = up[p].version_id
                                          /\ LocationsOf(locations, x.id) # {}}}
            = 0..(up[p].index - 1)

\* a download without a version parameter is accepted for a file that has versions
C15_AsksLatest(r) ==
    /\ WorkerFree(dn[r]) /\ dn'[r] # dn[r] /\ dn'[r].version = 0
    /\ \E f \in files : list_versions(f.id, dn'[r].user) # <<>>

(* C15. Latest version: list_versions returns a file's versions in strictly
   descending version-number order, and a download that names no version serves
   the first element of that list, the version with the highest number. *)
C15_LatestVersion ==
    /\ [](\A f \in files, u \in Users :
             LET l == list_versions(f.id, u) IN
             \A i \in 1..(Len(l) - 1) : l[i].version_number > l[i + 1].version_number)
    /\ [][\A r \in Readers : C15_AsksLatest(r) =>
              \E f \in files, u \in Users :
                  /\ list_versions(f.id, u) # <<>>
                  /\ dn'[r].version_id = Head(list_versions(f.id, u)).id]_vars

\* the ring position (from 0) of an online node: nodes in ascending hash order,
\* nodes of equal hash in the order of their ids
RingRank(n, online) ==
    Cardinality({m \in online : \/ node_hash[m] < node_hash[n]
                                  \/ (node_hash[m] = node_hash[n] /\ m < n)})

\* the k nodes at consecutive ring positions from the key's successor on
Successors(key_hash, online, k) ==
    LET ge == {RingRank(n, online) : n \in {m \in online : node_hash[m] >= key_hash}}
        s == IF ge = {} THEN 0 ELSE Min(ge)
    IN  [j \in 1..k |->
            CHOOSE n \in online :
                RingRank(n, online) = (s + j - 1) % Cardinality(online)]

(* C16. Successor selection: with more online nodes than k, the selection is the k
   nodes at consecutive positions of the ring (ascending node-key hash), from the
   first position whose hash is >= the key's hash, or from position 0 when there is
   none, wrapping around the end of the ring. *)
C16_SuccessorSelection ==
    (sel.status = 200 /\ Len(sel.online) > sel.k) =>
        sel.result = Successors(sel.key, {n \in DOMAIN nodes : nodes[n]}, sel.k)

\* two of three nodes, starting at the last ring position: the walk wraps around
C16_Witness ==
    /\ sel.status = 200 /\ Len(sel.online) = 3 /\ sel.k = 2
    /\ Cardinality({n \in Range(sel.online) : node_hash[n] >= sel.key}) = 1
    /\ node_hash[sel.result[1]] >= sel.key /\ node_hash[sel.result[2]] < sel.key

(* C17. Fail fast, no retry on write: within one upload no (chunk, node) pair is PUT
   twice; a PUT that fails is the last PUT of the upload, whatever targets and
   chunks were still to come, and the upload has ended with 502. *)
C17_FailFast ==
    \A p \in Procs :
        LET log == up[p].puts IN
        /\ \A i, j \in 1..Len(log) :
              (i # j) => <<log[i][1], log[i][2]>> # <<log[j][1], log[j][2]>>
        /\ \A i \in 1..Len(log) :
              ~log[i][3] => /\ i = Len(log)
                            /\ up[p].pc = "failed" /\ up[p].status = 502

\* the first chunk went to both targets; the second chunk's first PUT failed, with
\* one more target and one more byte window left
C17_Witness ==
    \E p \in Procs :
        /\ Len(up[p].puts) = 3 /\ ~up[p].puts[3][3]
        /\ up[p].index = 1 /\ up[p].pos = 1 /\ Len(up[p].targets) = 2
        /\ up[p].pc = "failed" /\ up[p].status = 502

\* the replicas the upload's acknowledged PUTs stored are on their nodes
C18_AcknowledgedStay(u) ==
    \A i \in 1..Len(u.puts) :
        u.puts[i][3] => has_chunk(blobs, u.puts[i][2], u.puts[i][1])

(* C18. No compensation for pushed replicas: no step of an upload removes or
   alters a blob a node has stored, the step of the failing PUT included; after
   the failure every replica that an earlier PUT of the upload stored, of the same
   chunk or of an earlier chunk, is still on its node. *)
C18_NoCompensation ==
    /\ [][\A b \in blobs : b \in blobs']_vars
    /\ [](\A p \in Procs : C18_AcknowledgedStay(up[p]))

\* the second PUT of the second chunk failed: three replicas stay on the nodes
C18_Witness ==
    \E p \in Procs :
        /\ up[p].pc = "failed" /\ up[p].status = 502
        /\ Len(up[p].puts) = 4 /\ ~up[p].puts[4][3]
        /\ \A i \in 1..3 : has_chunk(blobs, up[p].puts[i][2], up[p].puts[i][1])
        /\ Cardinality(blobs) >= 3

\* the committed, located chunks of a version
CommittedChunks(version_id) ==
    {c \in chunks : c.file_version_id = version_id /\ LocationsOf(locations, c.id) # {}}

(* C19. Partially written version: an upload that has failed at chunk index i > 0,
   for a failed PUT or for want of an online node, leaves its FileVersion with exactly the chunks 0..i-1 committed, with their
   locations, and with a size that is not the size of the full stream. *)
C19_PartialVersion ==
    \A p \in Procs :
        (up[p].pc = "failed" /\ up[p].status \in {502, 503} /\ up[p].index > 0) =>
            \A v \in versions : v.id = up[p].version_id =>
                /\ {c.index : c \in CommittedChunks(v.id)} = 0..(up[p].index - 1)
                /\ v.size_bytes # Len(up[p].src)

RECURSIVE SumSizes(_)
SumSizes(rows) ==
    IF rows = {} THEN 0
    ELSE LET r == CHOOSE x \in rows : TRUE IN r.size_bytes + SumSizes(rows \ {r})

(* C20. Version size: a FileVersion's size_bytes is 0 until the upload that writes
   it has written all its chunks and committed; from then on it is the sum of the
   size_bytes of the version's Chunk rows, which is the length of the uploaded
   stream. *)
C20_VersionSize ==
    \A v \in versions :
        /\ v.size_bytes # 0 => Uploaded(v.id)
        /\ Uploaded(v.id) =>
              /\ v.size_bytes = SumSizes({c \in chunks : c.file_version_id = v.id})
              /\ v.size_bytes = Len(StreamOf(v.id))

\* a version of two chunks and three bytes, and a later upload that failed
C20_Witness ==
    /\ \E v \in versions :
          /\ Uploaded(v.id) /\ v.size_bytes = CHUNK_SIZE_BYTES + 1
          /\ Cardinality({c \in chunks : c.file_version_id = v.id}) = 2
    /\ \E v \in versions, p \in Procs :
          /\ ~Uploaded(v.id) /\ v.size_bytes = 0 /\ v.id = up[p].version_id
          /\ up[p].pc = "failed" /\ up[p].index > 0

\* the positions of the chunk list the reader has issued GETs for, in GET order
GetPositions(d) == [g \in 1..Len(d.gets) |-> d.gets[g][1]]

(* C21. Read ordering: the reader's chunk list is in strictly ascending index
   order; its GETs go through the list without ever going back; a GET for a chunk
   is issued only when every chunk before it has been served completely and no
   chunk after it has been touched; and every byte emitted in the i-th place is a
   byte of the i-th chunk, so chunks are neither reordered nor interleaved. *)
C21_ReadOrdering ==
    \A r \in Readers :
        LET d == dn[r]
            pos == GetPositions(d)
        IN
        /\ \A i \in 1..(Len(d.chunk_list) - 1) :
              d.chunk_list[i].index < d.chunk_list[i + 1].index
        /\ \A g \in 1..(Len(pos) - 1) : pos[g] <= pos[g + 1]
        /\ \A g \in 1..Len(pos) : pos[g] <= Len(d.outs) + 1
        /\ d.pc = "get" => d.ci = Len(d.outs) + 1
        /\ \A i \in 1..Len(d.outs) :
              Range(d.outs[i]) \subseteq Range(ChunkBytes(d.chunk_list[i]))
        /\ d.cur # <<>> =>
              Range(d.cur) \subseteq Range(ChunkBytes(d.chunk_list[d.ci]))

\* two chunks served in order, the first one only at its second location
C21_Witness ==
    \E r \in Readers :
        /\ dn[r].pc = "done" /\ Len(dn[r].outs) = 2
        /\ GetPositions(dn[r]) = <<1, 1, 2>>
        /\ dn[r].outs[2] = ChunkBytes(dn[r].chunk_list[2])

\* the nodes the reader has sent a GET to for the chunk at position i, in GET order
RECURSIVE AskedOf(_, _)
AskedOf(gets, i) ==
    IF gets = <<>> THEN <<>>
    ELSE IF Head(gets)[1] = i THEN <<Head(gets)[2]>> \o AskedOf(Tail(gets), i)
    ELSE AskedOf(Tail(gets), i)

\* the request of reader r goes on: no new request has replaced it
C22_SameRequest(r) == ~WorkerFree(dn[r])

\* a step sends at most one GET, and sends it to the current location of the
\* current chunk; no GET goes to a chunk that has been served
C22_OneAtATime(r) ==
    /\ Len(dn'[r].gets) <= Len(dn[r].gets) + 1
    /\ Len(dn'[r].gets) = Len(dn[r].gets) + 1 =>
          /\ dn[r].pc = "get"
          /\ dn'[r].gets[Len(dn'[r].gets)] = <<dn[r].ci, dn[r].locs[dn[r].li].node_id>>
    /\ \A i \in 1..Len(dn[r].outs) : AskedOf(dn'[r].gets, i) = AskedOf(dn[r].gets, i)

(* C22. One replica at a time, first success wins: the locations of a chunk are
   asked one per step, in the order the metadata query returned them and each at
   most once; once a location has served the chunk in full no further GET for that
   chunk is sent. *)
C22_FirstSuccessWins ==
    /\ [][\A r \in Readers : C22_SameRequest(r) => C22_OneAtATime(r)]_vars
    /\ [](\A r \in Readers :
            /\ dn[r].pc = "get" =>
                  AskedOf(dn[r].gets, dn[r].ci) =
                      [j \in 1..(dn[r].li - 1) |-> dn[r].locs[j].node_id]
            /\ \A i \in 1..Len(dn[r].chunk_list) : Distinct(AskedOf(dn[r].gets, i)))

\* the first chunk was served by its first location although it has a second one;
\* the second chunk needed its second location
C22_Witness ==
    \E r \in Readers :
        /\ dn[r].pc = "done" /\ GetPositions(dn[r]) = <<1, 2, 2>>
        /\ \A i \in 1..2 :
              Cardinality(LocationsOf(locations, dn[r].chunk_list[i].id)) = 2
        /\ Distinct(AskedOf(dn[r].gets, 2))

\* reader r's request is accepted and names an existing version without Chunk rows
C23_AsksEmpty(r) ==
    /\ WorkerFree(dn[r]) /\ dn'[r] # dn[r]
    /\ \E v \in versions :
          /\ v.version_number = dn'[r].version
          /\ \E f \in files : f.id = v.file_id /\ f.owner_id = dn'[r].user
          /\ \A c \in chunks : c.file_version_id # v.id

(* C23. No chunks for version: a download of an existing FileVersion without Chunk
   records ends at once with 500, with no byte emitted and no storage node asked;
   no download ends successfully with an empty chunk list. *)
C23_NoChunksForVersion ==
    /\ [][\A r \in Readers : C23_AsksEmpty(r) =>
              /\ dn'[r].pc = "failed" /\ dn'[r].status = 500
              /\ dn'[r].outs = <<>> /\ dn'[r].cur = <<>> /\ dn'[r].gets = <<>>]_vars
    /\ [](\A r \in Readers : dn[r].pc = "done" => dn[r].chunk_list # <<>>)

\* the version exists, has no chunk and was asked for by its number
C23_Witness ==
    \E r \in Readers :
        /\ dn[r].pc = "failed" /\ dn[r].status = 500 /\ dn[r].version # 0
        /\ \E v \in versions : /\ v.id = dn[r].version_id
                                 /\ \A c \in chunks : c.file_version_id # v.id
        /\ dn[r].gets = <<>> /\ dn[r].outs = <<>>

\* the versions that are not the one an upload in progress is writing
Settled(v) == \A p \in Procs : ~(Writing(up[p]) /\ up[p].version_id = v.id)

\* a step of an upload request (every step of the handler changes its position)
UploadStep(p) == up'[p] # up[p]

\* the step leaves every settled version as it was: its row, its Chunk rows, their
\* ChunkLocation rows
C24_OldVersionsKept ==
    \A v \in versions : Settled(v) =>
        /\ v \in versions'
        /\ \A c \in chunks : c.file_version_id = v.id =>
              /\ c \in chunks'
              /\ LocationsOf(locations', c.id) = LocationsOf(locations, c.id)
        /\ \A c \in chunks' : c.file_version_id = v.id => c \in chunks

\* the step that creates the upload's version inserts one row with an unused id
C24_NewVersion(p) ==
    up[p].pc = "create_version" =>
        /\ up'[p].version_id \notin {v.id : v \in versions}
        /\ \E v \in versions' : /\ v.id = up'[p].version_id
                                /\ versions' = versions \cup {v}

(* C24. Upload never mutates old data: every step of an upload, successful or
   failed, leaves the row, the Chunk records and the ChunkLocation records of every
   version it is not writing unchanged; the upload writes a FileVersion it has
   inserted itself; and it never PUTs to a chunk id that a committed chunk or a
   blob of another chunk already uses. *)
C24_UploadKeepsOldData ==
    /\ [][\A p \in Procs : UploadStep(p) =>
              (C24_OldVersionsKept /\ C24_NewVersion(p))]_vars
    /\ [](\A p \in Procs : \A i \in 1..Len(up[p].puts) :
              /\ \A c \in chunks : c.id = up[p].puts[i][1] =>
                    c.file_version_id = up[p].version_id
              /\ \A b \in blobs : b.key = up[p].puts[i][1] =>
                    b.data \in {read_window(up[p].src, o) : o \in 0..MaxFileLen})

\* a second upload of the file, failed after a PUT, with the first version's two
\* chunks still committed
C24_Witness ==
    \E p \in Procs, v \in versions :
        /\ up[p].pc = "failed" /\ up[p].status = 502 /\ Len(up[p].puts) >= 2
        /\ v.id # up[p].version_id /\ v.file_id = up[p].file_id
        /\ Cardinality({c \in chunks : c.file_version_id = v.id}) = 2
        /\ v.size_bytes = CHUNK_SIZE_BYTES + 1

\* the nodes whose disks hold the chunk: the nodes its acknowledged PUTs went to
StoredOn(chunk_id) == {b.node : b \in {x \in blobs : x.key = chunk_id}}

\* at most one ChunkLocation per (chunk, node) pair
OneLocationPerPair ==
    \A l1, l2 \in locations :
        (l1.chunk_id = l2.chunk_id /\ l1.node_id = l2.node_id) => l1 = l2

(* C25, as stated. Replica records: in every state there is at most one location
   per (chunk, node) pair and every chunk of a successful upload has one location
   for each node selected at its placement, at least 1 and at most the replication
   factor. *)
C25_ReplicaRecordsStated ==
    /\ OneLocationPerPair
    /\ \A c \in chunks : Uploaded(c.file_version_id) =>
          /\ {l.node_id : l \in LocationsOf(locations, c.id)} = StoredOn(c.id)
          /\ Cardinality(LocationsOf(locations, c.id)) \in 1..REPLICATION_FACTOR

\* the upload places a chunk: it selects min(replication factor, online nodes)
\* distinct nodes that are online now
C25_Placement(p) ==
    (up[p].pc = "read" /\ up'[p].pc = "put") =>
        LET online == {n \in DOMAIN nodes : nodes[n]} IN
        /\ Len(up'[p].targets) = MinOf(REPLICATION_FACTOR, Cardinality(online))
        /\ Len(up'[p].targets) >= 1
        /\ Distinct(up'[p].targets) /\ Range(up'[p].targets) \subseteq online

\* the upload commits: every chunk gets one location for each selected node
C25_Commit ==
    \A c \in chunks' \ chunks :
        /\ {l.node_id : l \in LocationsOf(locations', c.id)} = StoredOn(c.id)
        /\ Cardinality(LocationsOf(locations', c.id)) \in 1..REPLICATION_FACTOR

(* C25, amended. Replica records: in every state there is at most one location per
   (chunk, node) pair; a chunk is placed on min(replication factor, online nodes)
   distinct online nodes, at least 1; when its upload commits the chunk has exactly
   one location for each of them; afterwards it has one location for each of them
   that is still registered, possibly none. *)
C25_ReplicaRecords ==
    /\ [](OneLocationPerPair)
    /\ [][(\A p \in Procs : C25_Placement(p)) /\ C25_Commit]_vars
    /\ [](\A c \in chunks : Uploaded(c.file_version_id) =>
            /\ {l.node_id : l \in LocationsOf(locations, c.id)}
                   = StoredOn(c.id) \cap DOMAIN nodes
            /\ Cardinality(LocationsOf(locations, c.id)) <= REPLICATION_FACTOR)

\* a chunk written to two nodes that has lost one location to a node's deletion
C25_Witness ==
    \E c \in chunks :
        /\ Uploaded(c.file_version_id)
        /\ Cardinality(StoredOn(c.id)) = 2
        /\ Cardinality(LocationsOf(locations, c.id)) = 1

\* a node is deleted in this step
C28_NodeDeleted == DOMAIN nodes' # DOMAIN nodes /\ DOMAIN nodes' \subseteq DOMAIN nodes

\* reader r comes to a chunk that has no ChunkLocation left
C28_ReachesOrphan(r) ==
    /\ dn[r].pc = "resolve" /\ dn'[r] # dn[r]
    /\ LocationsOf(locations, dn[r].chunk_list[dn[r].ci].id) = {}

(* C28. Node deletion and placements: every ChunkLocation references an existing
   Node and an existing Chunk; deleting a node removes exactly its ChunkLocations
   and leaves the Chunk records untouched; a download that comes to a chunk whose
   locations are all gone fails there with 503 and does not go past it. *)
C28_NodeDeletion ==
    /\ [](\A l \in locations :
            /\ l.node_id \in DOMAIN nodes
            /\ \E c \in chunks : c.id = l.chunk_id)
    /\ [][C28_NodeDeleted =>
            /\ chunks' = chunks
            /\ locations' = {l \in locations : l.node_id \in DOMAIN nodes'}]_vars
    /\ [][\A r \in Readers : C28_ReachesOrphan(r) =>
            /\ dn'[r].pc = "failed" /\ dn'[r].status = 503
            /\ dn'[r].detail = dn[r].chunk_list[dn[r].ci].index
            /\ dn'[r].outs = dn[r].outs /\ dn'[r].gets = dn[r].gets]_vars

\* the only node of a committed chunk was deleted: the chunk is still there and the
\* download has failed at it
C28_Witness ==
    \E r \in Readers, c \in chunks :
        /\ dn[r].pc = "failed" /\ dn[r].status = 503
        /\ dn[r].chunk_list[dn[r].ci] = c
        /\ LocationsOf(locations, c.id) = {}
        /\ StoredOn(c.id) # {} /\ StoredOn(c.id) \cap DOMAIN nodes = {}

OnlineNow == {n \in DOMAIN nodes : nodes[n]}

\* the upload queries the node set for a chunk: its targets are online at that moment
C29_Placed(p) ==
    (up[p].pc = "read" /\ up'[p].pc = "put") => Range(up'[p].targets) \subseteq OnlineNow

\* a PUT goes to a target of the chunk's own placement
C29_Put(p) ==
    Len(up'[p].puts) > Len(up[p].puts) =>
        /\ up[p].pc = "put" /\ Len(up'[p].puts) = Len(up[p].puts) + 1
        /\ up'[p].puts[Len(up'[p].puts)][1] = up[p].chunk_id
        /\ up'[p].puts[Len(up'[p].puts)][2] \in Range(up[p].targets)

\* the reader resolves a chunk's locations: their nodes are online at that moment
C29_Resolved(r) ==
    (dn[r].pc = "resolve" /\ dn'[r].pc = "get") =>
        \A j \in 1..Len(dn'[r].locs) :
            /\ dn'[r].locs[j].node_id \in OnlineNow
            /\ dn'[r].locs[j].chunk_id = dn[r].chunk_list[dn[r].ci].id

\* a GET goes to a location of the chunk's own resolution
C29_Get(r) ==
    Len(dn'[r].gets) > Len(dn[r].gets) =>
        /\ dn[r].pc = "get"
        /\ \E j \in 1..Len(dn[r].locs) :
              /\ dn[r].locs[j].chunk_id = dn[r].chunk_list[dn[r].ci].id
              /\ dn'[r].gets[Len(dn'[r].gets)] = <<dn[r].ci, dn[r].locs[j].node_id>>

(* C29. Offline nodes are never contacted: a PUT for a chunk goes only to a node
   that was online when the node set was queried for that chunk's placement, a GET
   for a chunk only to a node that was online when that chunk's locations were
   resolved; placement and resolution are done anew for every chunk. *)
C29_OfflineNeverContacted ==
    /\ [][\A p \in Procs : UploadStep(p) => (C29_Placed(p) /\ C29_Put(p))]_vars
    /\ [][\A r \in Readers : C22_SameRequest(r) => (C29_Resolved(r) /\ C29_Get(r))]_vars
    /\ [](\A p \in Procs : up[p].pc = "put" =>
            \E c \in up[p].pchunks : c.id = up[p].chunk_id /\ c.index = up[p].index)

\* the node that served the first chunk and holds the first location of the second
\* went offline in between: the second chunk was fetched from the other node only
C29_Witness ==
    \E r \in Readers, n \in DOMAIN nodes :
        /\ dn[r].pc = "done" /\ Len(dn[r].gets) = 2 /\ ~nodes[n]
        /\ dn[r].gets[1] = <<1, n>> /\ dn[r].gets[2][1] = 2 /\ dn[r].gets[2][2] # n
        /\ \E l \in locations :
              l.chunk_id = dn[r].chunk_list[2].id /\ l.node_id = n /\ l.ord = 1

\* the callers of a file that are not its owner
Strangers(f) == Callers \ {f.owner_id}

(* C30. Owner-only read: for a caller who is not the file's owner, whatever
   FilePermission rows the file has, list_versions returns the empty list and
   download_file answers 404 with no byte emitted and no storage node asked. *)
C30_OwnerOnlyRead ==
    /\ \A f \in files : \A u \in Strangers(f) : list_versions(f.id, u) = <<>>
    /\ \A r \in Readers :
          (dn[r].pc # "idle" /\ \A f \in files : dn[r].user \in Strangers(f)) =>
              /\ dn[r].pc = "failed" /\ dn[r].status = 404
              /\ dn[r].outs = <<>> /\ dn[r].cur = <<>> /\ dn[r].gets = <<>>
              /\ dn[r].chunk_list = <<>> /\ dn[r].version_id = 0

\* a caller with a FilePermission row on an uploaded file that is not his asked
\* for it
C30_Witness ==
    \E r \in Readers, f \in files :
        /\ dn[r].user \in Strangers(f) /\ dn[r].status = 404 /\ dn[r].version = 1
        /\ \E q \in f.perms : q[1] = dn[r].user
        /\ \E v \in versions : v.file_id = f.id /\ v.version_number = 1 /\ Uploaded(v.id)

(* C26. Concurrent uploads of the same file: no reachable state holds two
   FileVersions of one file with the same version_number. *)
C26_DistinctVersionNumbers ==
    \A v \in versions, w \in versions :
        (v.file_id = w.file_id /\ v.version_number = w.version_number) => v.id = w.id

(* C27. Find-or-create of the File: after any interleaving of uploads there is
   at most one File record per (name, owner, folder). *)
C27_OneFilePerName ==
    \A f \in files, g \in files :
        (f.name = g.name /\ f.owner_id = g.owner_id) => f.id = g.id

====
